---- MODULE Spec2Model ----
(***************************************************************************)
(* A model of the TCP socket wrapper (src/src/socket.c, socket.h) and of   *)
(* the server program that drives it (src/src/main.c).                     *)
(*                                                                         *)
(* The heap holds the ServerSocket and Socket structures, `os` is the      *)
(* kernel's descriptor table as seen through the system calls the wrapper  *)
(* makes, and `pc` is the position of main().  Peers are the environment.  *)
(***************************************************************************)
EXTENDS Integers, Sequences, FiniteSets, TLC

(***************************************************************************)
(* Bounds of the model.                                                    *)
(***************************************************************************)
\* descriptors 3 .. MaxFd are available to the process
MaxFd == 4
\* number of remote peers that may connect
NumPeers == 2
\* number of ServerSocket cells / Socket cells the allocator can hand out
NumServers == 2
NumSockets == 2

(***************************************************************************)
(* Program constants.                                                      *)
(***************************************************************************)
SOCKET_BUFFER_SIZE == 1024
MainBacklog == 5
Greeting == "Welcome to the server!\n"
Acknowledgement == "Message received\n"

NULL == 0

\* `char ip[16]`, the last member of Socket; in a ServerSocket the int
\* `backlog` follows it
IpCapacity == 16

(***************************************************************************)
(* Text is a sequence of one-character strings, so that the conversions    *)
(* between text and binary addresses are computed, not assumed.            *)
(***************************************************************************)
DigitChars == <<"0", "1", "2", "3", "4", "5", "6", "7", "8", "9">>

IsDigit(ch) == \E i \in 1..10 : DigitChars[i] = ch

DigitVal(ch) == (CHOOSE i \in 1..10 : DigitChars[i] = ch) - 1

Wildcard == <<0, 0, 0, 0>>

\* The scanning loop of inet_pton(AF_INET, ...): st = [ok, octets, saw, tmp].
RECURSIVE PtonScan(_, _, _)
PtonScan(src, i, st) ==
    IF ~st.ok \/ i > Len(src) THEN st
    ELSE LET ch == src[i]
             cur == st.tmp[Len(st.tmp)]
         IN IF IsDigit(ch)
            THEN LET new == cur * 10 + DigitVal(ch)
                 IN IF (st.saw /\ cur = 0) \/ new > 255 \/ (~st.saw /\ st.octets + 1 > 4)
                    THEN [st EXCEPT !.ok = FALSE]
                    ELSE PtonScan(src, i + 1,
                           [ok |-> TRUE,
                            octets |-> IF st.saw THEN st.octets ELSE st.octets + 1,
                            saw |-> TRUE,
                            tmp |-> [st.tmp EXCEPT ![Len(st.tmp)] = new]])
            ELSE IF ch = "." /\ st.saw
                 THEN IF st.octets = 4
                      THEN [st EXCEPT !.ok = FALSE]
                      ELSE PtonScan(src, i + 1,
                             [st EXCEPT !.saw = FALSE, !.tmp = Append(st.tmp, 0)])
                 ELSE [st EXCEPT !.ok = FALSE]

\* inet_pton(AF_INET, src, dst): <<1, octets>> on success, <<0, dst>> (dst
\* left as it was) when src is not a dotted-decimal IPv4 address.
inet_pton(src, dst) ==
    LET st == PtonScan(src, 1, [ok |-> TRUE, octets |-> 0, saw |-> FALSE, tmp |-> <<0>>])
    IN IF st.ok /\ st.octets = 4 THEN <<1, st.tmp>> ELSE <<0, dst>>

RECURSIVE Decimal(_)
Decimal(n) ==
    IF n < 10 THEN <<DigitChars[n + 1]>>
    ELSE Decimal(n \div 10) \o <<DigitChars[(n % 10) + 1]>>

\* inet_ntop(AF_INET, addr, buf, size): the dotted-decimal text of 4 octets.
inet_ntop(addr) ==
    Decimal(addr[1]) \o <<".">> \o Decimal(addr[2]) \o <<".">>
        \o Decimal(addr[3]) \o <<".">> \o Decimal(addr[4])

\* htons / ntohs on a little-endian host: the low 16 bits, bytes swapped.
htons(x) == ((x % 256) * 256) + ((x \div 256) % 256)

ntohs(x) == ((x % 256) * 256) + ((x \div 256) % 256)

strlen(data) == Len(data)

(***************************************************************************)
(* Inputs of the program and of the environment.                           *)
(***************************************************************************)
IpLoopback == <<"1", "2", "7", ".", "0", ".", "0", ".", "1">>
IpAny == <<"0", ".", "0", ".", "0", ".", "0">>
IpNotDotted == <<"l", "o", "c", "a", "l">>

\* sixteen characters: one more than the longest dotted-decimal address
IpTooLong == <<"1", "9", "2", ".", "1", "6", "8", ".", "1", "0", "0", ".", "1", "0", "0", "0">>

IpInputs == {IpLoopback, IpAny, IpNotDotted, IpTooLong}

PortInputs == {8080}

\* the port the kernel picks when a socket listens without a bound address
EphemeralPort == 49152

Peers == {[addr |-> <<10, 0, 0, p>>, port |-> 40000 + p] : p \in 1..NumPeers}

\* sizes of the chunks a peer writes ("ping", and more than one buffer)
PeerChunks == {4, 2 * SOCKET_BUFFER_SIZE}

Fds == 3..MaxFd
SrvIds == 1..NumServers
SockIds == 1..NumSockets

NoAddr == [family |-> "", port |-> -1, addr |-> Wildcard]
NoPeer == [addr |-> Wildcard, port |-> 0]

\* a descriptor that is not open
FreeFd == [st |-> "free", laddr |-> NoAddr, backlog |-> 0, q |-> <<>>,
           peer |-> NoPeer, rx |-> 0, fin |-> FALSE, rst |-> FALSE]

\* a cell of the heap that is not allocated
FreeServer == [mem |-> "free", fd |-> -1, port |-> 0, backlog |-> 0, ip |-> <<>>,
               address |-> [family |-> "", port |-> 0, addr |-> Wildcard]]
\* a ServerSocket cell that free() has taken back: its bytes are the
\* allocator's, and a pointer to it that the caller kept is dangling
ReleasedServer == [FreeServer EXCEPT !.mem = "released"]

FreeSocket == [mem |-> "free", fd |-> -1, port |-> 0, ip |-> <<>>,
               address |-> [family |-> "", port |-> 0, addr |-> Wildcard]]

VARIABLES
    pc,        \* position of main()
    server,    \* main's `server` pointer (NULL or a ServerSocket cell)
    client,    \* main's `client` pointer (NULL or a Socket cell)
    srv,       \* heap: ServerSocket cells
    cli,       \* heap: Socket cells
    os,        \* kernel descriptor table
    last,      \* the last wrapper call: its result and the system call it made
    log        \* the wrapper calls main made on the current Connection

vars == <<pc, server, client, srv, cli, os, last, log>>

(***************************************************************************)
(* The kernel: system calls as functions of the descriptor table.  Every   *)
(* call that can fail for a reason outside the program (resources, the     *)
(* network, another process) may fail whenever it is made.                 *)
(***************************************************************************)
IsOpen(o, fd) == fd \in Fds /\ o[fd].st # "free"

FreeFds(o) == {fd \in Fds : o[fd].st = "free"}

LowestFree(o) == CHOOSE fd \in FreeFds(o) : \A g \in FreeFds(o) : fd <= g

Min(a, b) == IF a <= b THEN a ELSE b

\* two local addresses collide: same port, and same address or a wildcard
Collide(a, b) ==
    /\ a.port = b.port
    /\ (a.addr = b.addr \/ a.addr = Wildcard \/ b.addr = Wildcard)

InUse(o, a) ==
    \E fd \in Fds : o[fd].st \in {"bound", "listening"} /\ Collide(o[fd].laddr, a)

\* socket(AF_INET, SOCK_STREAM, 0): the lowest free descriptor, or -1
OsSocketResults(o) == {-1} \cup (IF FreeFds(o) = {} THEN {} ELSE {LowestFree(o)})

OsSocket(o, fd) == [o EXCEPT ![fd] = [FreeFd EXCEPT !.st = "unbound"]]

\* bind(fd, address): 0 or -1
OsBindResults(o, fd, a) ==
    IF IsOpen(o, fd) /\ o[fd].st = "unbound" /\ ~InUse(o, a) THEN {0, -1} ELSE {-1}

OsBind(o, fd, a) == [o EXCEPT ![fd].st = "bound", ![fd].laddr = a]

\* listen(fd, backlog): 0 or -1.  A socket that was never bound either is
\* refused or is given an ephemeral port on the wildcard address, depending
\* on the platform.
OsListenResults(o, fd) ==
    IF IsOpen(o, fd) /\ o[fd].st \in {"unbound", "bound", "listening"} THEN {0, -1} ELSE {-1}

OsListen(o, fd, backlog) ==
    [o EXCEPT ![fd].st = "listening",
              ![fd].backlog = backlog,
              ![fd].laddr = IF o[fd].st = "unbound"
                            THEN [family |-> "AF_INET", port |-> htons(EphemeralPort),
                                  addr |-> Wildcard]
                            ELSE o[fd].laddr]

\* accept(fd, &addr, &len) blocks while the queue of a listening socket is empty
OsAcceptReady(o, fd) ==
    IF IsOpen(o, fd) THEN ~(o[fd].st = "listening" /\ o[fd].q = <<>>) ELSE TRUE

OsAcceptResults(o, fd) ==
    IF IsOpen(o, fd) /\ o[fd].st = "listening" /\ o[fd].q # <<>> /\ FreeFds(o) # {}
    THEN {LowestFree(o), -1}
    ELSE {-1}

OsAccept(o, fd, newfd) ==
    [o EXCEPT ![fd].q = Tail(o[fd].q),
              ![newfd] = [FreeFd EXCEPT !.st = "conn", !.peer = Head(o[fd].q)]]

\* the address accept() stores for the new connection (network byte order)
OsPeerAddress(o, fd) ==
    [family |-> "AF_INET", port |-> htons(Head(o[fd].q).port), addr |-> Head(o[fd].q).addr]

IsConn(o, fd) == fd \in Fds /\ o[fd].st = "conn"

\* send(fd, data, len, 0): the number of bytes the kernel took, or -1
\* (a short count is drawn from the two extremes: one byte, all but one)
SendCounts(len) == {1, len - 1, len} \cap 1..len

OsSendResults(o, fd, len) ==
    IF IsConn(o, fd) /\ ~o[fd].rst THEN {-1} \cup SendCounts(len) ELSE {-1}

\* the bytes taken leave for the peer; the descriptor table is as it was
OsSend(o, fd, n) == o

\* recv(fd, buf, len, 0) blocks while a healthy connection has nothing to read
OsRecvReady(o, fd, len) ==
    IF IsConn(o, fd)
    THEN (o[fd].rst \/ o[fd].rx > 0 \/ o[fd].fin \/ len = 0) = TRUE
    ELSE TRUE

OsRecvResults(o, fd, len) ==
    IF ~IsConn(o, fd) \/ o[fd].rst THEN {-1}
    ELSE {Min(o[fd].rx, len)}

OsRecv(o, fd, n) == [o EXCEPT ![fd].rx = o[fd].rx - n]

\* close(fd): 0, or -1.  A close that fails on an open descriptor leaves it
\* released or still open, depending on the platform.
OsCloseOutcomes(o, fd) ==
    IF IsOpen(o, fd)
    THEN {[res |-> 0, released |-> TRUE], [res |-> -1, released |-> TRUE],
          [res |-> -1, released |-> FALSE]}
    ELSE {[res |-> -1, released |-> FALSE]}

OsClose(o, fd, out) == IF out.released /\ fd \in Fds THEN [o EXCEPT ![fd] = FreeFd] ELSE o

(***************************************************************************)
(* The allocator.                                                          *)
(***************************************************************************)
FreeSrvCells == {s \in SrvIds : srv[s].mem # "live"}
FreeSockCells == {c \in SockIds : cli[c].mem = "free"}

\* malloc returns some free cell; which one does not matter, take the first
NewServer == CHOOSE s \in FreeSrvCells : \A t \in FreeSrvCells : s <= t
NewSocket == CHOOSE c \in FreeSockCells : \A d \in FreeSockCells : c <= d

NoCall == [call |-> "none", fd |-> -1, len |-> 0, res |-> 0]

Call(name, fd, len, res) == [call |-> name, fd |-> fd, len |-> len, res |-> res]

\* nul: the index of the buffer at which a terminating zero was stored
\* fault: what the call did to memory that had already been released
Last(op, obj, ret, sys) ==
    [op |-> op, obj |-> obj, ret |-> ret, sys |-> sys, nul |-> -1, fault |-> "none"]

NoLast == Last("none", NULL, 0, NoCall)

(***************************************************************************)
(* The wrapper library (socket.c).  Each operation sets srv, cli, os and   *)
(* last; the caller's own variables are set by the caller.                 *)
(***************************************************************************)
\* strcpy(dst, src) writes Len(src) + 1 bytes from dst on, whatever dst's
\* size; what a later read of dst as a string yields is src
strcpy(src) == src

\* the character code of a digit or a dot
Code(ch) == IF ch = "." THEN 46 ELSE 48 + DigitVal(ch)

\* the bytes strcpy(server->server_socket.ip, src) writes past ip[16]:
\* the characters from the 17th on, and the terminating zero
Spilled(src) ==
    [k \in 1..(Len(src) + 1 - IpCapacity) |->
        IF IpCapacity + k <= Len(src) THEN Code(src[IpCapacity + k]) ELSE 0]

\* an int whose low bytes (little-endian) were overwritten by `bytes`
RECURSIVE ClobberInt(_, _)
ClobberInt(old, bytes) ==
    IF bytes = <<>> THEN old
    ELSE Head(bytes) + 256 * ClobberInt(old \div 256, Tail(bytes))

\* writing past ip[16] is undefined: a build with checked string functions
\* aborts the process, any other lets the bytes fall on `backlog`
CopyFaults(src) == IF Spilled(src) = <<>> THEN {"none"} ELSE {"overflow", "abort"}

\* the fields create_server_socket stores once socket() has returned fd
ServerFields(fd, ip, port, backlog) ==
    [mem |-> "live",
     fd |-> fd,
     port |-> port,
     backlog |-> ClobberInt(backlog, SubSeq(Spilled(ip), 1, Min(4, Len(Spilled(ip))))),
     ip |-> strcpy(ip),
     address |-> [family |-> "AF_INET",
                  port |-> htons(port),
                  addr |-> inet_pton(strcpy(ip), Wildcard)[2]]]

\* (mutation: the socket() failure path returns without free(server))
create_server_socket_NoFree(ip, port, backlog) ==
    \/ /\ last' = Last("create_server_socket", NULL, NULL, NoCall)
       /\ UNCHANGED <<srv, cli, os>>
    \/ /\ FreeSrvCells # {}
       /\ \E fd \in OsSocketResults(os) :
            IF fd < 0
            THEN /\ last' = Last("create_server_socket", NULL, NULL,
                                 Call("socket", -1, 0, -1))
                 /\ srv' = [srv EXCEPT ![NewServer] = [FreeServer EXCEPT !.mem = "live"]]
                 /\ UNCHANGED <<cli, os>>
            ELSE \E fault \in CopyFaults(ip) :
                   IF fault = "abort"
                   THEN \* the process is gone, and with it what it held
                        /\ last' = [Last("create_server_socket", NULL, NULL,
                                         Call("socket", fd, 0, fd))
                                    EXCEPT !.fault = fault]
                        /\ UNCHANGED <<srv, cli, os>>
                   ELSE /\ os' = OsSocket(os, fd)
                        /\ srv' = [srv EXCEPT ![NewServer] =
                                      ServerFields(fd, ip, port, backlog)]
                        /\ last' = [Last("create_server_socket", NewServer, NewServer,
                                         Call("socket", fd, 0, fd))
                                    EXCEPT !.fault = fault]
                        /\ UNCHANGED cli

create_server_socket(ip, port, backlog) ==
    \/ \* malloc returned NULL
       /\ last' = Last("create_server_socket", NULL, NULL, NoCall)
       /\ UNCHANGED <<srv, cli, os>>
    \/ /\ FreeSrvCells # {}
       /\ \E fd \in OsSocketResults(os) :
            IF fd < 0
            THEN \* free(server); return NULL
                 /\ last' = Last("create_server_socket", NULL, NULL,
                                 Call("socket", -1, 0, -1))
                 /\ UNCHANGED <<srv, cli, os>>
            ELSE \E fault \in CopyFaults(ip) :
                   IF fault = "abort"
                   THEN \* the process is gone, and with it what it held
                        /\ last' = [Last("create_server_socket", NULL, NULL,
                                         Call("socket", fd, 0, fd))
                                    EXCEPT !.fault = fault]
                        /\ UNCHANGED <<srv, cli, os>>
                   ELSE /\ os' = OsSocket(os, fd)
                        /\ srv' = [srv EXCEPT ![NewServer] =
                                      ServerFields(fd, ip, port, backlog)]
                        /\ last' = [Last("create_server_socket", NewServer, NewServer,
                                         Call("socket", fd, 0, fd))
                                    EXCEPT !.fault = fault]
                        /\ UNCHANGED cli

\* (mutation: the result of bind() is not tested)
server_bind_Unchecked(s) ==
    \E r \in OsBindResults(os, srv[s].fd, srv[s].address) :
        /\ os' = IF r < 0 THEN os ELSE OsBind(os, srv[s].fd, srv[s].address)
        /\ last' = Last("server_bind", s, 0, Call("bind", srv[s].fd, 0, r))
        /\ UNCHANGED <<srv, cli>>

server_bind(s) ==
    \E r \in OsBindResults(os, srv[s].fd, srv[s].address) :
        /\ os' = IF r < 0 THEN os ELSE OsBind(os, srv[s].fd, srv[s].address)
        /\ last' = Last("server_bind", s, IF r < 0 THEN -1 ELSE 0,
                        Call("bind", srv[s].fd, 0, r))
        /\ UNCHANGED <<srv, cli>>

server_listen(s) ==
    \E r \in OsListenResults(os, srv[s].fd) :
        /\ os' = IF r < 0 THEN os ELSE OsListen(os, srv[s].fd, srv[s].backlog)
        /\ last' = Last("server_listen", s, IF r < 0 THEN -1 ELSE 0,
                        Call("listen", srv[s].fd, srv[s].backlog, r))
        /\ UNCHANGED <<srv, cli>>

\* (mutation: the peer's port is stored without ntohs)
server_accept_NoNtohs(s) ==
    \/ /\ last' = Last("server_accept", s, NULL, NoCall)
       /\ UNCHANGED <<srv, cli, os>>
    \/ /\ FreeSockCells # {}
       /\ OsAcceptReady(os, srv[s].fd)
       /\ \E fd \in OsAcceptResults(os, srv[s].fd) :
            IF fd < 0
            THEN /\ last' = Last("server_accept", s, NULL,
                                 Call("accept", srv[s].fd, 0, -1))
                 /\ UNCHANGED <<srv, cli, os>>
            ELSE LET address == OsPeerAddress(os, srv[s].fd)
                 IN /\ os' = OsAccept(os, srv[s].fd, fd)
                    /\ cli' = [cli EXCEPT ![NewSocket] =
                           [mem |-> "live",
                            fd |-> fd,
                            address |-> address,
                            port |-> address.port,
                            ip |-> inet_ntop(address.addr)]]
                    /\ last' = Last("server_accept", s, NewSocket,
                                    Call("accept", srv[s].fd, 0, fd))
                    /\ UNCHANGED srv

\* (mutation: the peer's port is stored in the Listener's Socket as well)
server_accept_StoresInListener(s) ==
    \/ /\ last' = Last("server_accept", s, NULL, NoCall)
       /\ UNCHANGED <<srv, cli, os>>
    \/ /\ FreeSockCells # {}
       /\ OsAcceptReady(os, srv[s].fd)
       /\ \E fd \in OsAcceptResults(os, srv[s].fd) :
            IF fd < 0
            THEN /\ last' = Last("server_accept", s, NULL,
                                 Call("accept", srv[s].fd, 0, -1))
                 /\ UNCHANGED <<srv, cli, os>>
            ELSE LET address == OsPeerAddress(os, srv[s].fd)
                 IN /\ os' = OsAccept(os, srv[s].fd, fd)
                    /\ cli' = [cli EXCEPT ![NewSocket] =
                           [mem |-> "live",
                            fd |-> fd,
                            address |-> address,
                            port |-> ntohs(address.port),
                            ip |-> inet_ntop(address.addr)]]
                    /\ srv' = [srv EXCEPT ![s].port = ntohs(address.port)]
                    /\ last' = Last("server_accept", s, NewSocket,
                                    Call("accept", srv[s].fd, 0, fd))

server_accept(s) ==
    \/ \* malloc returned NULL
       /\ last' = Last("server_accept", s, NULL, NoCall)
       /\ UNCHANGED <<srv, cli, os>>
    \/ /\ FreeSockCells # {}
       /\ OsAcceptReady(os, srv[s].fd)
       /\ \E fd \in OsAcceptResults(os, srv[s].fd) :
            IF fd < 0
            THEN \* free(client_socket); return NULL
                 /\ last' = Last("server_accept", s, NULL,
                                 Call("accept", srv[s].fd, 0, -1))
                 /\ UNCHANGED <<srv, cli, os>>
            ELSE LET address == OsPeerAddress(os, srv[s].fd)
                 IN /\ os' = OsAccept(os, srv[s].fd, fd)
                    /\ cli' = [cli EXCEPT ![NewSocket] =
                           [mem |-> "live",
                            fd |-> fd,
                            address |-> address,
                            port |-> ntohs(address.port),
                            ip |-> inet_ntop(address.addr)]]
                    /\ last' = Last("server_accept", s, NewSocket,
                                    Call("accept", srv[s].fd, 0, fd))
                    /\ UNCHANGED srv

socket_send(c, data) ==
    \E r \in OsSendResults(os, cli[c].fd, strlen(data)) :
        /\ os' = IF r < 0 THEN os ELSE OsSend(os, cli[c].fd, r)
        /\ last' = Last("socket_send", c, IF r < 0 THEN -1 ELSE r,
                        Call("send", cli[c].fd, strlen(data), r))
        /\ UNCHANGED <<srv, cli>>

\* (mutation: recv() is given buffer_size, not buffer_size - 1)
socket_receive_FullSize(c, buffer_size) ==
    /\ OsRecvReady(os, cli[c].fd, buffer_size)
    /\ \E r \in OsRecvResults(os, cli[c].fd, buffer_size) :
        /\ os' = IF r < 0 THEN os ELSE OsRecv(os, cli[c].fd, r)
        /\ last' = [Last("socket_receive", c, IF r < 0 THEN -1 ELSE r,
                         Call("recv", cli[c].fd, buffer_size, r))
                    EXCEPT !.nul = IF r < 0 THEN -1 ELSE r]
        /\ UNCHANGED <<srv, cli>>

\* (mutation: end of stream is reported as a failure)
socket_receive_EofIsError(c, buffer_size) ==
    /\ OsRecvReady(os, cli[c].fd, buffer_size - 1)
    /\ \E r \in OsRecvResults(os, cli[c].fd, buffer_size - 1) :
        /\ os' = IF r < 0 THEN os ELSE OsRecv(os, cli[c].fd, r)
        /\ last' = [Last("socket_receive", c, IF r <= 0 THEN -1 ELSE r,
                         Call("recv", cli[c].fd, buffer_size - 1, r))
                    EXCEPT !.nul = IF r < 0 THEN -1 ELSE r]
        /\ UNCHANGED <<srv, cli>>

\* (mutation: a failed recv() closes the Connection)
socket_receive_ClosesOnFailure(c, buffer_size) ==
    /\ OsRecvReady(os, cli[c].fd, buffer_size - 1)
    /\ \E r \in OsRecvResults(os, cli[c].fd, buffer_size - 1) :
        /\ os' = IF r < 0
                 THEN OsClose(os, cli[c].fd, [res |-> 0, released |-> TRUE])
                 ELSE OsRecv(os, cli[c].fd, r)
        /\ cli' = IF r < 0 THEN [cli EXCEPT ![c].fd = -1] ELSE cli
        /\ last' = [Last("socket_receive", c, IF r < 0 THEN -1 ELSE r,
                         Call("recv", cli[c].fd, buffer_size - 1, r))
                    EXCEPT !.nul = IF r < 0 THEN -1 ELSE r]
        /\ UNCHANGED srv

socket_receive(c, buffer_size) ==
    /\ OsRecvReady(os, cli[c].fd, buffer_size - 1)
    /\ \E r \in OsRecvResults(os, cli[c].fd, buffer_size - 1) :
        /\ os' = IF r < 0 THEN os ELSE OsRecv(os, cli[c].fd, r)
        /\ last' = [Last("socket_receive", c, IF r < 0 THEN -1 ELSE r,
                         Call("recv", cli[c].fd, buffer_size - 1, r))
                    EXCEPT !.nul = IF r < 0 THEN -1 ELSE r]
        /\ UNCHANGED <<srv, cli>>

\* (mutation: socket_close stores -1 in fd whatever close() returned)
socket_close_ClearsAlways(o, sock, fd) ==
    IF sock # NULL /\ fd >= 0
    THEN {[ret |-> IF out.res < 0 THEN -1 ELSE 0,
           fd |-> -1,
           os |-> OsClose(o, fd, out),
           sys |-> Call("close", fd, 0, out.res)] : out \in OsCloseOutcomes(o, fd)}
    ELSE {[ret |-> 0, fd |-> fd, os |-> o, sys |-> NoCall]}

\* (mutation: socket_close without the `socket->fd = -1` after close())
socket_close_KeepsFd(o, sock, fd) ==
    IF sock # NULL /\ fd >= 0
    THEN {[ret |-> IF out.res < 0 THEN -1 ELSE 0,
           fd |-> fd,
           os |-> OsClose(o, fd, out),
           sys |-> Call("close", fd, 0, out.res)] : out \in OsCloseOutcomes(o, fd)}
    ELSE {[ret |-> 0, fd |-> fd, os |-> o, sys |-> NoCall]}

\* (mutation: socket_close without the `fd >= 0` guard)
socket_close_Unguarded(o, sock, fd) ==
    {[ret |-> IF out.res < 0 THEN -1 ELSE 0,
      fd |-> IF out.res < 0 THEN fd ELSE -1,
      os |-> OsClose(o, fd, out),
      sys |-> Call("close", fd, 0, out.res)] : out \in OsCloseOutcomes(o, fd)}

\* socket_close(socket) on a Socket whose descriptor field holds fd, with the
\* kernel in state o: the possible [ret, fd, os, sys] after the call.
socket_close(o, sock, fd) ==
    IF sock # NULL /\ fd >= 0
    THEN {[ret |-> IF out.res < 0 THEN -1 ELSE 0,
           fd |-> IF out.res < 0 THEN fd ELSE -1,
           os |-> OsClose(o, fd, out),
           sys |-> Call("close", fd, 0, out.res)] : out \in OsCloseOutcomes(o, fd)}
    ELSE {[ret |-> 0, fd |-> fd, os |-> o, sys |-> NoCall]}

\* socket_close applied to an accepted Connection
socket_close_client(c) ==
    \E out \in socket_close(os, c, cli[c].fd) :
        /\ os' = out.os
        /\ cli' = [cli EXCEPT ![c].fd = out.fd]
        /\ last' = Last("socket_close", c, out.ret, out.sys)
        /\ UNCHANGED srv

\* what `server->server_socket.fd` reads: the field of a live ServerSocket;
\* through a dangling pointer, whatever the released bytes hold now
ServerFdRead(s) == IF srv[s].mem = "live" THEN {srv[s].fd} ELSE {-1} \cup Fds

\* free(server): of a live cell, its release; of a released cell, a double
\* free, which the allocator either detects (the process is aborted) or
\* does not (the call returns, the heap's free list is damaged)
FreeFaults(s) == IF srv[s].mem = "live" THEN {"none"} ELSE {"double free", "abort"}

server_free(s) ==
    IF s = NULL
    THEN /\ last' = Last("server_free", NULL, 0, NoCall)
         /\ UNCHANGED <<srv, cli, os>>
    ELSE \E f \in ServerFdRead(s), fault \in FreeFaults(s) :
           \E out \in socket_close(os, s, f) :
             /\ os' = out.os
             /\ srv' = [srv EXCEPT ![s] = ReleasedServer]
             /\ last' = [Last("server_free", s, 0, out.sys) EXCEPT !.fault = fault]
             /\ UNCHANGED cli

\* free(client) in main
free_client(c) ==
    /\ cli' = [cli EXCEPT ![c] = FreeSocket]
    /\ last' = Last("free", c, 0, NoCall)
    /\ UNCHANGED <<srv, os>>

(***************************************************************************)
(* main() (main.c), one action per statement that calls the library.       *)
(***************************************************************************)
Entry(op, data, ret) == [op |-> op, data |-> data, ret |-> ret]

\* (mutation: the test written as `bytes_received < 0`)
Abandon_OnErrorOnly(bytes_received) == bytes_received < 0

\* `if (!bytes_received)`: the branch that abandons the exchange
Abandon(bytes_received) == bytes_received = 0

MainCreate ==
    /\ pc = "create"
    /\ \E ip \in IpInputs, port \in PortInputs :
         create_server_socket(ip, port, MainBacklog)
    /\ server' = last'.ret
    /\ pc' = IF last'.fault = "abort" THEN "abort"
             ELSE IF last'.ret = NULL THEN "exit" ELSE "bind"
    /\ UNCHANGED <<client, log>>

MainBind ==
    /\ pc = "bind"
    /\ server_bind(server)
    /\ pc' = "listen"
    /\ UNCHANGED <<server, client, log>>

MainListen ==
    /\ pc = "listen"
    /\ server_listen(server)
    /\ pc' = "accept"
    /\ UNCHANGED <<server, client, log>>

\* (mutation: a failed accept leaves the loop instead of `continue`)
MainAccept_ExitOnFailure ==
    /\ pc = "accept"
    /\ server_accept(server)
    /\ client' = last'.ret
    /\ pc' = IF last'.ret = NULL THEN "exit" ELSE "greet"
    /\ UNCHANGED <<server, log>>

MainAccept ==
    /\ pc = "accept"
    /\ server_accept(server)
    /\ client' = last'.ret
    /\ pc' = IF last'.ret = NULL THEN "accept" ELSE "greet"
    /\ UNCHANGED <<server, log>>

MainGreet ==
    /\ pc = "greet"
    /\ socket_send(client, Greeting)
    /\ log' = Append(log, Entry("socket_send", "greeting", last'.ret))
    /\ pc' = "recv"
    /\ UNCHANGED <<server, client>>

MainRecv ==
    /\ pc = "recv"
    /\ socket_receive(client, SOCKET_BUFFER_SIZE - 1)
    /\ log' = Append(log, Entry("socket_receive", "", last'.ret))
    /\ pc' = IF Abandon(last'.ret) THEN "abandon" ELSE "ack"
    /\ UNCHANGED <<server, client>>

MainAck ==
    /\ pc = "ack"
    /\ socket_send(client, Acknowledgement)
    /\ log' = Append(log, Entry("socket_send", "acknowledgement", last'.ret))
    /\ pc' = "close"
    /\ UNCHANGED <<server, client>>

\* (mutation: the abandoning branch forgets socket_close)
MainAbandonClose_NoClose ==
    /\ pc = "abandon"
    /\ pc' = "abandon_free"
    /\ UNCHANGED <<server, client, srv, cli, os, last, log>>

\* lines 51-53: socket_close(client); free(client); continue;
MainAbandonClose ==
    /\ pc = "abandon"
    /\ socket_close_client(client)
    /\ log' = Append(log, Entry("socket_close", "", last'.ret))
    /\ pc' = "abandon_free"
    /\ UNCHANGED <<server, client>>

\* (mutation: the abandoning branch forgets free(client))
MainAbandonFree_NoFree ==
    /\ pc = "abandon_free"
    /\ log' = <<>>
    /\ pc' = "accept"
    /\ client' = NULL
    /\ UNCHANGED <<server, srv, cli, os, last>>

MainAbandonFree ==
    /\ pc = "abandon_free"
    /\ free_client(client)
    /\ log' = <<>>
    /\ pc' = "accept"
    /\ client' = NULL
    /\ UNCHANGED server

\* lines 58-59: socket_close(client); free(client);
MainClose ==
    /\ pc = "close"
    /\ socket_close_client(client)
    /\ log' = Append(log, Entry("socket_close", "", last'.ret))
    /\ pc' = "free"
    /\ UNCHANGED <<server, client>>

\* (mutation: the loop is left after one client has been served)
MainFree_ServeOnce ==
    /\ pc = "free"
    /\ free_client(client)
    /\ log' = <<>>
    /\ pc' = "exit"
    /\ client' = NULL
    /\ UNCHANGED server

MainFree ==
    /\ pc = "free"
    /\ free_client(client)
    /\ log' = <<>>
    /\ pc' = "accept"
    /\ client' = NULL
    /\ UNCHANGED server

Main ==
    \/ MainCreate \/ MainBind \/ MainListen \/ MainAccept \/ MainGreet
    \/ MainRecv \/ MainAck \/ MainAbandonClose \/ MainAbandonFree
    \/ MainClose \/ MainFree

(***************************************************************************)
(* The environment: remote peers.                                          *)
(***************************************************************************)
Engaged(p) ==
    \E fd \in Fds :
        \/ os[fd].st = "conn" /\ os[fd].peer = p
        \/ \E i \in 1..Len(os[fd].q) : os[fd].q[i] = p

\* peers are interchangeable: the next one to connect is the first idle one
IdlePeers == {p \in Peers : ~Engaged(p)}

NextPeer == CHOOSE p \in IdlePeers : \A r \in IdlePeers : p.port <= r.port

\* how many completed connections a listening socket holds for accept():
\* listen()'s backlog is a lower limit; the kernel may queue one more (Linux
\* does: its queue is full when it holds more than backlog)
QueueLimits(backlog) == {backlog, backlog + 1}

\* a connection attempt is queued while the queue is below the limit
PeerConnect ==
    /\ IdlePeers # {}
    /\ \E p \in {NextPeer}, fd \in Fds :
         /\ os[fd].st = "listening"
         /\ \E limit \in QueueLimits(os[fd].backlog) : Len(os[fd].q) < limit
         /\ os' = [os EXCEPT ![fd].q = Append(os[fd].q, p)]
    /\ UNCHANGED <<pc, server, client, srv, cli, last, log>>

\* a peer writes its next chunk once the previous one has been read
PeerSendOn(fd) ==
    /\ os[fd].st = "conn" /\ ~os[fd].fin /\ ~os[fd].rst
    /\ os[fd].rx = 0
    /\ \E n \in PeerChunks : os' = [os EXCEPT ![fd].rx = n]
    /\ UNCHANGED <<pc, server, client, srv, cli, last, log>>

\* a peer closes its side: the server reads what is left, then end of stream
PeerCloseOn(fd) ==
    /\ os[fd].st = "conn" /\ ~os[fd].fin /\ ~os[fd].rst
    /\ os' = [os EXCEPT ![fd].fin = TRUE]
    /\ UNCHANGED <<pc, server, client, srv, cli, last, log>>

PeerSend == \E fd \in Fds : PeerSendOn(fd)

PeerClose == \E fd \in Fds : PeerCloseOn(fd)

\* a peer resets the connection: unread data is gone, calls on it fail
PeerReset ==
    /\ \E fd \in Fds :
         /\ os[fd].st = "conn" /\ ~os[fd].rst
         /\ os' = [os EXCEPT ![fd].rst = TRUE, ![fd].rx = 0, ![fd].fin = FALSE]
    /\ UNCHANGED <<pc, server, client, srv, cli, last, log>>

Peer == PeerConnect \/ PeerSend \/ PeerClose \/ PeerReset

(***************************************************************************)
(* The server program.                                                     *)
(***************************************************************************)
Init ==
    /\ pc = "create"
    /\ server = NULL
    /\ client = NULL
    /\ srv = [s \in SrvIds |-> FreeServer]
    /\ cli = [c \in SockIds |-> FreeSocket]
    /\ os = [fd \in Fds |-> FreeFd]
    /\ last = NoLast
    /\ log = <<>>

Next ==
    \/ MainCreate \/ MainBind \/ MainListen \/ MainAccept \/ MainGreet
    \/ MainRecv \/ MainAck \/ MainAbandonClose \/ MainAbandonFree
    \/ MainClose \/ MainFree
    \/ PeerConnect \/ PeerSend \/ PeerClose \/ PeerReset

Spec == Init /\ [][Next]_vars

\* The process is scheduled, and every connected peer eventually writes or
\* closes (or the connection is reset), so that a blocked receive returns.
LiveSpec ==
    /\ Spec
    /\ WF_vars(Main)
    /\ \A fd \in Fds : WF_vars(PeerSendOn(fd) \/ PeerCloseOn(fd))

(***************************************************************************)
(* Properties of the server loop.                                          *)
(***************************************************************************)
ListenerFd == IF server = NULL THEN -1 ELSE srv[server].fd

ListenerState == IF ListenerFd \in Fds THEN os[ListenerFd].st ELSE "free"

Sent(data) == {i \in 1..Len(log) : log[i].data = data}

Received == {i \in 1..Len(log) : log[i].op = "socket_receive"}

Closed == {i \in 1..Len(log) : log[i].op = "socket_close"}

\* C1: the acknowledgement is sent on a Connection only after a
\* socket_receive on that Connection returned a positive byte count, never
\* after one that failed.
C1_AckOnlyAfterReceipt ==
    \A i \in Sent("acknowledgement") :
        \E j \in Received : j < i /\ log[j].ret > 0

\* C2: when socket_receive returns 0 the server abandons the exchange: no
\* acknowledgement is sent on the Connection, socket_close is invoked on it,
\* its memory is freed and the loop goes back to accept.
C2_ZeroBytes == \E j \in Received : log[j].ret = 0

C2_AbandonOnZeroInv ==
    C2_ZeroBytes =>
        /\ Sent("acknowledgement") = {}
        /\ pc \in {"abandon", "abandon_free"}
        /\ pc = "abandon" => Closed = {}
        /\ pc = "abandon_free" =>
              /\ Closed = {Len(log)}
              /\ last.op = "socket_close" /\ last.obj = client

C2_AbandonOnZeroStep ==
    /\ (pc = "recv" /\ pc' # pc /\ last'.ret = 0) => pc' = "abandon"
    /\ (pc = "abandon" /\ pc' # pc) =>
          pc' = "abandon_free" /\ last'.op = "socket_close" /\ last'.obj = client
    /\ (pc = "abandon_free" /\ pc' # pc) =>
          pc' = "accept" /\ cli'[client].mem = "free"

C2_AbandonOnZero == []C2_AbandonOnZeroInv /\ [][C2_AbandonOnZeroStep]_vars

C2_Witness ==
    /\ pc = "abandon_free"
    /\ Len(log) = 3
    /\ log[2].op = "socket_receive" /\ log[2].ret = 0
    /\ log[3].op = "socket_close"

\* C3: listen is invoked only on a bound Listener and accept only on a
\* listening Listener.
C3_ValidStates ==
    /\ pc = "listen" => ListenerState = "bound"
    /\ pc = "accept" => ListenerState = "listening"

\* C4: whenever server_accept is invoked the handle of every previously
\* accepted Connection has been released, and no two live Connections hold
\* the same handle.
C4_OneConnection ==
    /\ pc = "accept" => \A fd \in Fds : os[fd].st # "conn"
    /\ \A c, d \in SockIds :
          (c # d /\ cli[c].mem = "live" /\ cli[d].mem = "live" /\ cli[c].fd >= 0)
              => cli[c].fd # cli[d].fd

\* C5: on every accepted Connection socket_close is invoked after the
\* send/receive exchange, whatever its outcome, and before the next accept.
C5_CloseAlwaysInv ==
    /\ pc \in {"greet", "recv", "ack", "abandon", "close"} => Closed = {}
    /\ pc \in {"abandon_free", "free"} =>
          /\ Closed = {Len(log)}
          /\ Len(log) >= 3
          /\ log[1].data = "greeting" /\ log[2].op = "socket_receive"

C5_CloseAlwaysStep ==
    (pc' = "accept" /\ pc \notin {"listen", "accept"}) =>
        /\ pc \in {"abandon_free", "free"}
        /\ Closed # {}

C5_CloseAlways == []C5_CloseAlwaysInv /\ [][C5_CloseAlwaysStep]_vars

C5_Witness ==
    /\ pc = "free"
    /\ Len(log) = 4
    /\ log[1].ret = -1 /\ log[2].ret = -1 /\ log[3].ret = -1
    /\ log[4].op = "socket_close"

\* C6: on a Connection on which no send fails, every byte of the greeting
\* has been handed to the kernel before the receive.
C6_GreetingInFull ==
    (pc = "recv" /\ \A i \in Sent("greeting") : log[i].ret # -1) =>
        \E i \in Sent("greeting") : log[i].ret = strlen(Greeting)

\* C9: after socket_send fails on a Connection the server performs no
\* further send or receive on it, only its close.
C9_SendFailureFatal ==
    \A i, j \in 1..Len(log) :
        (i < j /\ log[i].op = "socket_send" /\ log[i].ret = -1)
            => log[j].op \notin {"socket_send", "socket_receive"}

LoopPcs ==
    {"accept", "greet", "recv", "ack", "abandon", "abandon_free", "close", "free"}

\* a step of main(), as opposed to a step of a peer
MainStep == pc' # pc \/ last' # last

\* C7: after a client has been serviced (greeting, receive, acknowledgement)
\* and its Connection closed, the server invokes accept again on the same
\* listening Listener; and every Connection it accepts gets the same
\* exchange: greeting, then receive, then (unless the receive returned 0)
\* acknowledgement, then close.  Peers eventually write or close.
C7_Serviced ==
    /\ pc = "free"
    /\ Len(log) = 4
    /\ log[1].data = "greeting" /\ log[1].ret > 0
    /\ log[2].op = "socket_receive" /\ log[2].ret > 0
    /\ log[3].data = "acknowledgement" /\ log[3].ret > 0
    /\ log[4].op = "socket_close"

C7_ExchangeDone ==
    \/ /\ pc = "free"
       /\ Len(log) = 4
       /\ log[1].data = "greeting"
       /\ log[2].op = "socket_receive" /\ log[2].ret # 0
       /\ log[3].data = "acknowledgement"
       /\ log[4].op = "socket_close"
    \/ /\ pc = "abandon_free"
       /\ Len(log) = 3
       /\ log[1].data = "greeting"
       /\ log[2].op = "socket_receive" /\ log[2].ret = 0
       /\ log[3].op = "socket_close"

C7_NextClient ==
    /\ C7_Serviced ~> (pc = "accept" /\ ListenerState = "listening")
    /\ (pc = "greet") ~> C7_ExchangeDone
    /\ [][server # NULL => server' = server]_vars

C7_Witness == C7_Serviced /\ ListenerState = "listening"

\* C8: a failure of server_accept, socket_send or socket_receive leaves the
\* Listener as it was (listening, handle open), does not leave the loop, and
\* the loop issues another accept on it.
C8_FailedCall ==
    \/ last.op = "server_accept" /\ last.ret = NULL
    \/ last.op \in {"socket_send", "socket_receive"} /\ last.ret = -1

C8_FailureStep ==
    (MainStep /\ C8_FailedCall') =>
        /\ server' = server
        /\ srv' = srv
        /\ os'[ListenerFd] = os[ListenerFd]
        /\ pc' \in LoopPcs

C8_StaysInLoop == (pc \in LoopPcs) => (pc' \in LoopPcs)

C8_FailuresAreLocal ==
    /\ [][C8_FailureStep]_vars
    /\ [][C8_StaysInLoop]_vars
    /\ C8_FailedCall ~> (pc = "accept")
    /\ (C8_FailedCall /\ ListenerState = "listening")
           ~> (pc = "accept" /\ ListenerState = "listening")

C8_Witness ==
    /\ pc = "accept"
    /\ last.op = "server_accept" /\ last.ret = NULL /\ last.sys.call = "accept"
    /\ ListenerState = "listening"

(***************************************************************************)
(* The Connection side of the library under an arbitrary caller: starting  *)
(* with a Listener that create, bind and listen have made listening, any   *)
(* of accept, send, receive, close and free, in any order, on the Sockets  *)
(* the caller holds.                                                       *)
(***************************************************************************)
LiveServers == {s \in SrvIds : srv[s].mem = "live"}
LiveSockets == {c \in SockIds : cli[c].mem = "live"}

Backlogs == {1}

\* the Listener's own address plays no part once it is listening
ConnIps == {IpLoopback}

BufferSizes == {1, SOCKET_BUFFER_SIZE - 1}

caller == <<pc, server, client, log>>

ConnAccept ==
    pc = "api" /\ (\E s \in LiveServers : server_accept(s)) /\ UNCHANGED caller

ConnSend ==
    pc = "api" /\ (\E c \in LiveSockets : socket_send(c, Greeting)) /\ UNCHANGED caller

ConnReceive ==
    /\ pc = "api"
    /\ \E c \in LiveSockets, size \in BufferSizes : socket_receive(c, size)
    /\ UNCHANGED caller

ConnClose ==
    pc = "api" /\ (\E c \in LiveSockets : socket_close_client(c)) /\ UNCHANGED caller

ConnRelease ==
    pc = "api" /\ (\E c \in LiveSockets : free_client(c)) /\ UNCHANGED caller

\* the state after create_server_socket, server_bind and server_listen have
\* all succeeded in a fresh process
ConnInit ==
    /\ pc = "api"
    /\ server = NULL
    /\ client = NULL
    /\ log = <<>>
    /\ cli = [c \in SockIds |-> FreeSocket]
    /\ \E ip \in ConnIps, port \in PortInputs, backlog \in Backlogs :
         LET none == [fd \in Fds |-> FreeFd]
             fd == LowestFree(none)
             fields == ServerFields(fd, ip, port, backlog)
         IN /\ srv = [s \in SrvIds |-> IF s = 1 THEN fields ELSE FreeServer]
            /\ os = OsListen(OsBind(OsSocket(none, fd), fd, fields.address), fd, backlog)
            /\ last = Last("server_listen", 1, 0, Call("listen", fd, backlog, 0))

ConnNext ==
    \/ ConnAccept \/ ConnSend \/ ConnReceive \/ ConnClose \/ ConnRelease
    \/ PeerConnect \/ PeerSend \/ PeerClose \/ PeerReset

ConnSpec == ConnInit /\ [][ConnNext]_vars

\* the library under both callers: main(), and the arbitrary caller
CallersSpec == (Init \/ ConnInit) /\ [][Next \/ ConnNext]_vars

\* C10: a second socket_close on a Connection that a socket_close has closed
\* returns 0, makes no close() call, leaves the Connection closed (fd = -1)
\* and changes no other Connection and no Listener.
C10_SecondClose(c) ==
    /\ cli[c].mem = "live" /\ cli[c].fd = -1
    /\ last' # last
    /\ last'.op = "socket_close" /\ last'.obj = c

C10_CloseIdempotentStep ==
    \A c \in SockIds :
        C10_SecondClose(c) =>
            /\ last'.ret = 0
            /\ last'.sys = NoCall
            /\ cli'[c].fd = -1
            /\ cli' = cli
            /\ srv' = srv
            /\ os' = os

C10_CloseIdempotent == [][C10_CloseIdempotentStep]_vars

C10_Witness ==
    /\ last.op = "socket_close" /\ last.ret = 0 /\ last.sys = NoCall
    /\ last.obj \in LiveSockets /\ cli[last.obj].fd = -1
    /\ \E d \in LiveSockets : d # last.obj /\ IsConn(os, cli[d].fd)
    /\ \E s \in LiveServers : IsOpen(os, srv[s].fd) /\ os[srv[s].fd].st = "listening"

(***************************************************************************)
(* The Listener side of the library under an arbitrary caller: create,     *)
(* bind, listen and teardown of up to NumServers Listeners in any order,   *)
(* the teardown also through a pointer the caller kept after a teardown.   *)
(***************************************************************************)
LsnIps == {IpLoopback}

LsnPorts == {8080, 8081}

LsnBacklogs == {MainBacklog}

\* the ServerSocket pointers the caller holds: live ones, and dangling ones
HeldServers == {s \in SrvIds : srv[s].mem \in {"live", "released"}}

LsnCreate ==
    /\ pc = "lsn"
    /\ \E ip \in LsnIps, port \in LsnPorts, backlog \in LsnBacklogs :
         create_server_socket(ip, port, backlog)
    /\ UNCHANGED caller

LsnBind == pc = "lsn" /\ (\E s \in LiveServers : server_bind(s)) /\ UNCHANGED caller

LsnListen == pc = "lsn" /\ (\E s \in LiveServers : server_listen(s)) /\ UNCHANGED caller

\* server_free(server); a double free the allocator detects ends the process
LsnFree ==
    /\ pc = "lsn"
    /\ \E s \in HeldServers \cup {NULL} : server_free(s)
    /\ pc' = IF last'.fault = "abort" THEN "abort" ELSE pc
    /\ UNCHANGED <<server, client, log>>

LsnInit ==
    /\ pc = "lsn"
    /\ server = NULL
    /\ client = NULL
    /\ srv = [s \in SrvIds |-> FreeServer]
    /\ cli = [c \in SockIds |-> FreeSocket]
    /\ os = [fd \in Fds |-> FreeFd]
    /\ last = NoLast
    /\ log = <<>>

LsnNext == LsnCreate \/ LsnBind \/ LsnListen \/ LsnFree

LsnSpec == LsnInit /\ [][LsnNext]_vars

\* C11: server_free on a Listener that has already been torn down is a
\* no-op: it makes no close() call, releases no descriptor, and neither
\* reads nor frees memory that was already released.
C11_SecondTeardown ==
    /\ last' # last
    /\ last'.op = "server_free"
    /\ last'.obj # NULL
    /\ srv[last'.obj].mem = "released"

C11_TeardownIdempotentStep ==
    C11_SecondTeardown =>
        /\ last'.sys = NoCall
        /\ last'.fault = "none"
        /\ os' = os
        /\ pc' = pc

C11_TeardownIdempotent == [][C11_TeardownIdempotentStep]_vars

\* C12: in every execution of the server in which a Listener was created,
\* also when server_bind or server_listen failed, server_free is eventually
\* invoked on it and its handle is released.
C12_TeardownReached ==
    (server # NULL) ~> (last.op = "server_free" /\ ListenerState = "free")

\* C13: a constructor that fails returns nothing and keeps nothing: when
\* create_server_socket or server_accept returns NULL, no ServerSocket or
\* Socket memory allocated by the call stays allocated and no descriptor
\* opened by it stays open.
C13_FailedConstructor ==
    /\ last' # last
    /\ last'.op \in {"create_server_socket", "server_accept"}
    /\ last'.ret = NULL

C13_NoLeakStep ==
    C13_FailedConstructor =>
        /\ srv' = srv
        /\ cli' = cli
        /\ os' = os
        /\ last'.op = "create_server_socket" => server' = NULL
        /\ last'.op = "server_accept" => client' = NULL

C13_NoLeakOnFailure == [][C13_NoLeakStep]_vars

C13_Witness ==
    /\ pc = "exit"
    /\ last.op = "create_server_socket" /\ last.ret = NULL
    /\ last.sys = Call("socket", -1, 0, -1)
    /\ server = NULL
    /\ \A s \in SrvIds : srv[s].mem # "live"
    /\ \A fd \in Fds : os[fd].st = "free"

\* C14: the Listener's state changes only along created -> bound ->
\* listening: to bound by a successful server_bind from created, to
\* listening by a successful server_listen from bound, to closed by teardown
\* from any state; server_accept, successful or failed, leaves it listening.
\* (created is the kernel's "unbound", closed its "free".)
C14_StateMachineStep ==
    (ListenerState' # ListenerState) =>
        \/ /\ ListenerState = "free" /\ ListenerState' = "unbound"
           /\ last'.op = "create_server_socket" /\ last'.ret # NULL
        \/ /\ ListenerState = "unbound" /\ ListenerState' = "bound"
           /\ last'.op = "server_bind" /\ last'.ret = 0
        \/ /\ ListenerState = "bound" /\ ListenerState' = "listening"
           /\ last'.op = "server_listen" /\ last'.ret = 0
        \/ /\ ListenerState' = "free"
           /\ last'.op = "server_free"

C14_StateMachine == [][C14_StateMachineStep]_vars

\* C15: a Connection never leaves the closed state: a successful
\* socket_close leaves fd = -1; while the Socket lives no operation gives it
\* a handle again and every socket_send and socket_receive on it fails; and
\* main performs no send or receive on a Connection after its socket_close.
C15_ClosedInv ==
    /\ (last.op = "socket_close" /\ last.ret = 0 /\ cli[last.obj].mem = "live")
           => cli[last.obj].fd = -1
    /\ \A i, j \in 1..Len(log) :
          (i < j /\ log[i].op = "socket_close")
              => log[j].op \notin {"socket_send", "socket_receive"}

C15_ClosedStep ==
    \A c \in SockIds :
        (cli[c].mem = "live" /\ cli[c].fd = -1) =>
            /\ cli'[c].mem = "live" => cli'[c].fd = -1
            /\ (last' # last /\ last'.obj = c
                   /\ last'.op \in {"socket_send", "socket_receive"})
                  => last'.ret = -1

C15_ClosedIsFinal == []C15_ClosedInv /\ [][C15_ClosedStep]_vars

C15_Witness ==
    /\ pc = "api"
    /\ last.op \in {"socket_send", "socket_receive"} /\ last.ret = -1
    /\ cli[last.obj].mem = "live" /\ cli[last.obj].fd = -1

\* C16: socket_send and socket_receive, whether they succeed or fail, leave
\* the Connection's handle, peer IP and peer port as they were and its
\* descriptor open; the handle of a Connection changes only in socket_close.
C16_Transfer ==
    last' # last /\ last'.op \in {"socket_send", "socket_receive"}

C16_NoAutoCloseStep ==
    /\ C16_Transfer =>
          /\ cli' = cli
          /\ IsOpen(os, cli[last'.obj].fd) => IsOpen(os', cli[last'.obj].fd)
    /\ \A c \in SockIds :
          (cli[c].mem = "live" /\ cli'[c].mem = "live" /\ cli'[c].fd # cli[c].fd)
              => (last'.op = "socket_close" /\ last'.obj = c)

C16_NoAutoClose == [][C16_NoAutoCloseStep]_vars

C16_Witness ==
    /\ last.op = "socket_receive" /\ last.ret = -1
    /\ cli[last.obj].mem = "live"
    /\ IsConn(os, cli[last.obj].fd)

\* C17: a socket_receive(connection, buffer, max_bytes) that does not fail
\* returns a length in 0..max_bytes; when the peer has closed its write side
\* and nothing is left to read it returns 0, which is not the failure
\* result -1.  (recv() is given max_bytes - 1, recorded in sys.len.)
C17_Receive == last' # last /\ last'.op = "socket_receive"

C17_EndOfStream(fd) ==
    IsConn(os, fd) /\ os[fd].fin /\ os[fd].rx = 0 /\ ~os[fd].rst

C17_ReceiveLengthStep ==
    C17_Receive =>
        /\ last'.ret # -1 => last'.ret \in 0..(last'.sys.len + 1)
        /\ C17_EndOfStream(cli[last'.obj].fd) => last'.ret = 0

C17_ReceiveLength == [][C17_ReceiveLengthStep]_vars

C17_Witness ==
    /\ last.op = "socket_receive" /\ last.ret = 0
    /\ last.sys.len = SOCKET_BUFFER_SIZE - 2
    /\ cli[last.obj].mem = "live"
    /\ C17_EndOfStream(cli[last.obj].fd)

\* C18: a Listener's handle is open from its creation until its teardown,
\* and server_bind, server_listen, server_accept, socket_send,
\* socket_receive and socket_close on a Connection leave its IP, port,
\* backlog and handle as create stored them.
C18_HandleOpen ==
    \A s \in SrvIds : srv[s].mem = "live" => IsOpen(os, srv[s].fd)

C18_FrameStep ==
    \A s \in SrvIds :
        (srv[s].mem = "live" /\ last'.op # "server_free") => srv'[s] = srv[s]

C18_ListenerStable == []C18_HandleOpen /\ [][C18_FrameStep]_vars

C18_Witness ==
    /\ last.op = "socket_close" /\ last.sys.call = "close" /\ last.ret = 0
    /\ \E s \in LiveServers :
          /\ os[srv[s].fd].st = "listening"
          /\ srv[s].port \in PortInputs
          /\ srv[s].backlog = MainBacklog

\* C19: after listen the pending queue has capacity backlog, the value given
\* at create (5 in the server): an attempt is queued while fewer than
\* backlog are pending, the (backlog+1)-th pending attempt is refused, and a
\* successful accept removes exactly one pending connection and leaves the
\* others as they were.
C19_Listening(fd) == fd \in Fds /\ os[fd].st = "listening"

C19_BacklogGiven ==
    /\ \A s \in LiveServers :
          C19_Listening(srv[s].fd) => os[srv[s].fd].backlog = srv[s].backlog
    /\ server # NULL => srv[server].backlog = MainBacklog

C19_Queued ==
    \A fd \in Fds :
        (C19_Listening(fd) /\ Len(os[fd].q) < os[fd].backlog /\ IdlePeers # {})
            => ENABLED PeerConnect

C19_Refused == \A fd \in Fds : C19_Listening(fd) => Len(os[fd].q) <= os[fd].backlog

C19_AcceptStep ==
    (last' # last /\ last'.op = "server_accept" /\ last'.ret # NULL) =>
        /\ os[srv[last'.obj].fd].q # <<>>
        /\ os'[srv[last'.obj].fd].q = Tail(os[srv[last'.obj].fd].q)
        /\ \A fd \in Fds \ {srv[last'.obj].fd} : os'[fd].q = os[fd].q

C19_QueueCapacity ==
    /\ [](C19_BacklogGiven /\ C19_Queued /\ C19_Refused)
    /\ [][C19_AcceptStep]_vars

\* C20: server_bind on a second Listener whose (ip, port) a first Listener,
\* not yet closed, is bound to returns -1 and leaves the second Listener as
\* it was (created).
C20_BoundTo(t) ==
    /\ srv[t].mem = "live"
    /\ IsOpen(os, srv[t].fd)
    /\ os[srv[t].fd].st \in {"bound", "listening"}
    /\ os[srv[t].fd].laddr = srv[t].address

C20_SameEndpoint(s, t) ==
    s # t /\ srv[s].ip = srv[t].ip /\ srv[s].port = srv[t].port

C20_SecondBind ==
    /\ last' # last
    /\ last'.op = "server_bind"
    /\ \E t \in SrvIds : C20_SameEndpoint(last'.obj, t) /\ C20_BoundTo(t)

C20_SecondBindFailsStep ==
    C20_SecondBind => (last'.ret = -1 /\ os' = os /\ srv' = srv)

C20_SecondBindFails == [][C20_SecondBindFailsStep]_vars

C20_Witness ==
    /\ last.op = "server_bind" /\ last.ret = -1
    /\ srv[last.obj].mem = "live"
    /\ IsOpen(os, srv[last.obj].fd) /\ os[srv[last.obj].fd].st = "unbound"
    /\ \E t \in SrvIds :
          /\ C20_SameEndpoint(last.obj, t) /\ C20_BoundTo(t)
          /\ srv[t].fd # srv[last.obj].fd

\* C21: the Connection a successful server_accept returns reports the IP
\* and the port (in host order) of the peer that was at the head of the
\* pending queue, and its descriptor is connected to that peer.
C21_Accepted == last' # last /\ last'.op = "server_accept" /\ last'.ret # NULL

C21_PeerReportedStep ==
    C21_Accepted =>
        LET p == Head(os[srv[last'.obj].fd].q)
            c == cli'[last'.ret]
        IN /\ c.port = p.port
           /\ inet_pton(c.ip, Wildcard) = <<1, p.addr>>
           /\ Len(c.ip) < IpCapacity
           /\ os'[c.fd].peer = p

C21_PeerReported == [][C21_PeerReportedStep]_vars

C21_Witness ==
    /\ last.op = "server_accept" /\ last.ret # NULL
    /\ cli[last.ret].mem = "live"
    /\ cli[last.ret].port = 40002
    /\ cli[last.ret].ip = <<"1", "0", ".", "0", ".", "0", ".", "2">>

\* C22: create with an IP string that is not IPv4 dotted-decimal succeeds
\* all the same (given memory and a socket) and the Listener's bind address
\* is the wildcard; with a valid string it is exactly that address.
C22_Created ==
    /\ last' # last
    /\ last'.op = "create_server_socket"
    /\ last'.sys.call = "socket" /\ last'.sys.res >= 0

C22_Expected(ip) == IF ip = IpLoopback THEN <<127, 0, 0, 1>> ELSE <<0, 0, 0, 0>>

C22_AddressStep ==
    C22_Created =>
        /\ last'.ret # NULL
        /\ srv'[last'.ret].address.family = "AF_INET"
        /\ srv'[last'.ret].address.addr = C22_Expected(srv'[last'.ret].ip)

C22_WildcardOnInvalid == [][C22_AddressStep]_vars

\* C23: in main's loop every call on a Connection (socket_send,
\* socket_receive, socket_close, free) is made on a Connection whose memory
\* is live, so none follows its free and none is a second free; free comes
\* directly after the one socket_close of the iteration, releases the
\* memory, and whenever the loop is back at accept no accepted Connection is
\* left allocated.
C23_OnConnection ==
    /\ pc \in LoopPcs
    /\ last' # last
    /\ last'.op \in {"socket_send", "socket_receive", "socket_close", "free"}

C23_Freed == C23_OnConnection /\ last'.op = "free"

C23_OncePerIterationStep ==
    /\ C23_OnConnection =>
           /\ last'.obj = client
           /\ cli[client].mem = "live"
    /\ C23_Freed =>
           /\ Cardinality(Closed) = 1
           /\ log[Len(log)].op = "socket_close"
           /\ cli'[client].mem # "live"
           /\ pc' = "accept"
    /\ (pc \in LoopPcs /\ pc' = "accept") => \A c \in SockIds : cli'[c].mem # "live"

C23_OncePerIteration == [][C23_OncePerIterationStep]_vars

C23_Witness ==
    /\ pc = "accept"
    /\ last.op = "free"
    /\ cli[last.obj].mem # "live"
    /\ \E fd \in Fds : IsConn(os, fd)

\* C24: a socket_close that reaches close() stores -1 in fd exactly when
\* close() returned 0; when close() failed it returns -1 and fd is as
\* before.  In main's loop the step after a socket_close, failed or not, is
\* the free of that Connection: a Connection whose close failed (fd still
\* set) is freed with one socket_close in its iteration, and the free
\* changes nothing in the kernel.
C24_Close ==
    /\ last' # last
    /\ last'.op = "socket_close"
    /\ last'.sys.call = "close"

C24_AfterClose == pc \in {"free", "abandon_free"} /\ MainStep

C24_CloseStep ==
    /\ C24_Close =>
           LET c == last'.obj
           IN /\ (cli'[c].fd = -1) <=> (last'.sys.res = 0)
              /\ (last'.sys.res = 0) => last'.ret = 0
              /\ (last'.sys.res # 0) => (last'.ret = -1 /\ cli'[c].fd = cli[c].fd)
    /\ C24_AfterClose =>
           /\ last'.op = "free" /\ last'.obj = client
           /\ Cardinality(Closed) = 1
           /\ os' = os
           /\ pc' = "accept"

C24_FailedCloseNotRetried == [][C24_CloseStep]_vars

C24_Witness ==
    /\ pc = "accept"
    /\ last.op = "free"
    /\ \E fd \in Fds : IsConn(os, fd) /\ \A c \in SockIds : cli[c].fd # fd

\* C25: socket_receive(c, buffer_size) gives recv() a length of at most
\* buffer_size - 1 and stores the terminating zero at an index below
\* buffer_size; main passes SOCKET_BUFFER_SIZE - 1 for a buffer of
\* SOCKET_BUFFER_SIZE bytes: recv() is given SOCKET_BUFFER_SIZE - 2, no more
\* than that is received and the zero lands inside the buffer.
C25_Received(c, buffer_size) ==
    /\ last' # last
    /\ last'.op = "socket_receive"
    /\ last'.obj = c
    /\ socket_receive(c, buffer_size)

C25_ReceiveStep ==
    /\ \A c \in LiveSockets, buffer_size \in BufferSizes :
           C25_Received(c, buffer_size) =>
               /\ last'.sys.call = "recv"
               /\ last'.sys.len <= buffer_size - 1
               /\ last'.ret <= buffer_size - 1
               /\ (last'.ret >= 0) => (last'.nul = last'.ret /\ last'.nul < buffer_size)
    /\ (pc = "recv" /\ MainStep) =>
           /\ last'.op = "socket_receive"
           /\ last'.sys.len = SOCKET_BUFFER_SIZE - 2
           /\ last'.ret <= SOCKET_BUFFER_SIZE - 2
           /\ last'.nul < SOCKET_BUFFER_SIZE

C25_ReceiveInBounds == [][C25_ReceiveStep]_vars

C25_Witness ==
    /\ pc = "ack"
    /\ last.op = "socket_receive"
    /\ last.ret = SOCKET_BUFFER_SIZE - 2
    /\ last.nul = SOCKET_BUFFER_SIZE - 2
    /\ \E fd \in Fds : IsConn(os, fd) /\ os[fd].rx > 0

====
